---- MODULE Spec2Model ----
(***************************************************************************)
(* Model of docs/source/conf.py: the two Sphinx event handlers of the      *)
(* documentation build.                                                    *)
(*                                                                         *)
(*   _clean            ("source-read"):       rewrites source[0] in place  *)
(*   _nowrap_all_math  ("doctree-resolved"):  sets nd["nowrap"] = True on   *)
(*                                            every display-math node      *)
(*                                                                         *)
(* Text is a sequence of Unicode code points (naturals).  A document tree  *)
(* is a record of three sequences indexed by node id (node 1 is the root): *)
(* kind, children (ordered child ids) and attrs (attribute name -> value). *)
(***************************************************************************)
EXTENDS Naturals, Sequences, FiniteSets

VARIABLES
    builder,          \* app.builder.name
    has_displaymath,  \* hasattr(addnodes, "displaymath") of the installed Sphinx
    phase,            \* "read" | "parsed" | "resolved"
    source,           \* source[0], the text buffer of the document unit
    source_in,        \* history: source[0] when the unit was read
    source_prev,      \* history: source[0] just before the latest _clean call
    cleanCalls,       \* history: number of _clean calls on this unit
    doctree,          \* the resolved document tree (NoTree before resolution)
    doctree_in,       \* history: the tree as handed over by the resolver
    tagCalls,         \* history: number of _nowrap_all_math calls on this tree
    _ARROWS           \* the module global _ARROWS: the ordered replacement table

vars == <<builder, has_displaymath, phase, source, source_in, source_prev,
          cleanCalls, doctree, doctree_in, tagCalls, _ARROWS>>

----------------------------------------------------------------------------
(* Code points                                                             *)

NUL == 0
BS == 8
TAB == 9
LF == 10
VT == 11
CR == 13
US == 31
DOLLAR == 36
BACKSLASH == 92
RIGHTARROW == 8594
ARROW == 10132

\* The C0 control range 0x00-0x1F.
C0 == 0..31

\* The three structural characters the comment on _CTRL names.
Structural == {TAB, LF, CR}

\* "\rightarrow" as code points: \ r i g h t a r r o w
RightArrowCmd == <<92, 114, 105, 103, 104, 116, 97, 114, 114, 111, 119>>

----------------------------------------------------------------------------
(* Bounds                                                                  *)

MaxPieces == 3
MaxCalls == 2
MaxNodes == 3
MaxEntries == 2
MaxScan == 3

----------------------------------------------------------------------------
(* 1. Pre-processing the source                                            *)

\* A regex that forgets VT: [\x00-\x08\x0C-\x1F].
_CTRL_skipVT(c) == c \in (0..8) \cup (12..31)

\* _CTRL = re.compile(r"[\x00-\x08\x0B-\x1F]"): whether the class matches c.
_CTRL(c) == c \in (0..8) \cup (11..31)

\* _CTRL.sub("", s): every match deleted.
_CTRL_sub(s) == SelectSeq(s, LAMBDA c : ~_CTRL(c))

\* The value written without the r prefix: "\r" becomes a carriage return.
ARROW_good_unraw == <<DOLLAR, CR, 105, 103, 104, 116, 97, 114, 114, 111, 119, DOLLAR>>

\* r"$\rightarrow$", the value for the arrow glyph.
ARROW_good == <<DOLLAR>> \o RightArrowCmd \o <<DOLLAR>>

\* _ARROWS = {"➔": r"$\rightarrow$"}: an ordered mapping, as a sequence of
\* <<key, value>> pairs in insertion order.
ShippedArrows == << <<(<<ARROW>>), ARROW_good>> >>

RECURSIVE replace_first(_, _, _)
\* str.replace(bad, good, 1): only the first occurrence.
replace_first(s, bad, good) ==
    IF Len(s) < Len(bad) THEN s
    ELSE IF SubSeq(s, 1, Len(bad)) = bad
         THEN good \o SubSeq(s, Len(bad) + 1, Len(s))
         ELSE <<s[1]>> \o replace_first(Tail(s), bad, good)

RECURSIVE replace_all(_, _, _)
replace_all(s, bad, good) ==
    IF Len(s) < Len(bad) THEN s
    ELSE IF SubSeq(s, 1, Len(bad)) = bad
         THEN good \o replace_all(SubSeq(s, Len(bad) + 1, Len(s)), bad, good)
         ELSE <<s[1]>> \o replace_all(Tail(s), bad, good)

\* txt.replace(bad, good): every non-overlapping occurrence of bad, found
\* left to right, replaced by good (bad is never empty here).
replace(s, bad, good) == replace_all(s, bad, good)

RECURSIVE substitute(_, _)
\* for bad, good in tbl.items(): txt = txt.replace(bad, good)
\* one full pass per entry, in insertion order.
substitute(tbl, txt) ==
    IF tbl = <<>> THEN txt
    ELSE substitute(Tail(tbl), replace(txt, tbl[1][1], tbl[1][2]))

\* A gate that compares without regard to case.
clean_active_nocase(name) == name \in {"latex", "LaTeX"}

\* not (app.builder.name != "latex"): exact, case-sensitive comparison.
clean_active(name) == name = "latex"

----------------------------------------------------------------------------
(* 2. The document tree                                                    *)

NoTree == [kind |-> <<>>, children |-> <<>>, attrs |-> <<>>]

\* nd[name] = value on a docutils Element: the attribute is added or
\* overwritten, every other attribute is kept.
setitem(a, name, value) ==
    [k \in (DOMAIN a) \cup {name} |-> IF k = name THEN value ELSE a[k]]

\* "nowrap" in nd and nd["nowrap"] is True
nowrap_true(a) == "nowrap" \in DOMAIN a /\ a["nowrap"] = TRUE

\* A predicate that knows docutils' math_block only.
is_math_docutils_only(k, hdm) == k = "math_block"

\* A predicate that takes inline math for display math as well.
is_math_inline_too(k, hdm) ==
    k \in {"math", "math_block"} \/ (hdm /\ k = "displaymath")

\* is_math(node), on the node's class k; hdm is has_displaymath.
is_math(k, hdm) == k = "math_block" \/ (hdm /\ k = "displaymath")

\* A gate that compares without regard to case.
nowrap_active_nocase(name) == name \in {"latex", "LaTeX"}

\* not (app.builder.name != "latex")
nowrap_active(name) == name = "latex"

RECURSIVE traverse_from(_, _)
RECURSIVE traverse_each(_, _)
\* Node.traverse() from node n, include_self and descend: document order
\* (the node, then each child's subtree, children left to right).
traverse_from(tree, n) == <<n>> \o traverse_each(tree, tree.children[n])

traverse_each(tree, ns) ==
    IF ns = <<>> THEN <<>>
    ELSE traverse_from(tree, ns[1]) \o traverse_each(tree, Tail(ns))

\* doctree.traverse(is_math): the nodes of the walk that satisfy is_math.
traverse(tree, hdm) ==
    SelectSeq(traverse_from(tree, 1), LAMBDA n : is_math(tree.kind[n], hdm))

RECURSIVE set_nowrap(_, _)
\* for nd in ...: nd["nowrap"] = True
set_nowrap(tree, ns) ==
    IF ns = <<>> THEN tree
    ELSE set_nowrap(
           [tree EXCEPT !.attrs[ns[1]] = setitem(@, "nowrap", TRUE)],
           Tail(ns))

----------------------------------------------------------------------------
(* Inputs                                                                  *)

\* Builder names Sphinx may run the handlers under.
Builders == {"latex", "LaTeX", "html"}

\* Building blocks of the text buffers: single characters (controls at the
\* edges of the character class, the structural three, a letter, the dollar
\* sign, the glyph) and the two strings the replacement value is made of.
Pieces ==
    {<<c>> : c \in {NUL, BS, TAB, LF, VT, CR, US, 97, DOLLAR, ARROW}}
        \cup {RightArrowCmd, ARROW_good}

RECURSIVE Concats(_, _)
\* Every concatenation of at most n pieces of P.
Concats(P, n) ==
    IF n = 0 THEN {<<>>}
    ELSE LET shorter == Concats(P, n - 1)
         IN  shorter \cup {p \o t : p \in P, t \in shorter}

Texts == Concats(Pieces, MaxPieces)

\* Attributes every element carries, and those of a node built by the math
\* directive, which stores its nowrap option.
BaseAttrs == [ids |-> "id"]

\* The nodes the parser and resolver hand over: <<class, attributes>>.
\* addnodes.displaymath nodes exist only where Sphinx defines the class.
NodeFlavours(hdm) ==
    {<<"paragraph", BaseAttrs>>,
     <<"paragraph", setitem(BaseAttrs, "nowrap", TRUE)>>,
     <<"math", BaseAttrs>>,
     <<"math_block", BaseAttrs>>,
     <<"math_block", setitem(BaseAttrs, "nowrap", FALSE)>>,
     <<"math_block", setitem(BaseAttrs, "nowrap", TRUE)>>}
        \cup (IF hdm THEN {<<"displaymath", BaseAttrs>>} ELSE {})

\* parent[i] < i for every node but the root; children in id order.
ParentMaps(n) ==
    {p \in [1..n -> 0..n] :
        p[1] = 0 /\ \A i \in 2..n : p[i] >= 1 /\ p[i] < i}

ChildrenOf(p, n, i) == SelectSeq([j \in 1..n |-> j], LAMBDA j : p[j] = i)

MakeTree(n, p, fl) ==
    [kind     |-> [i \in 1..n |-> IF i = 1 THEN "document" ELSE fl[i][1]],
     children |-> [i \in 1..n |-> ChildrenOf(p, n, i)],
     attrs    |-> [i \in 1..n |-> IF i = 1 THEN BaseAttrs ELSE fl[i][2]]]

Trees(hdm) ==
    UNION {{MakeTree(n, p, fl) :
               p \in ParentMaps(n), fl \in [2..n -> NodeFlavours(hdm)]} :
           n \in 1..MaxNodes}

----------------------------------------------------------------------------
(* The build of one document unit                                          *)

Init ==
    /\ builder \in Builders
    /\ has_displaymath \in BOOLEAN
    /\ phase = "read"
    /\ source \in Texts
    /\ source_in = source
    /\ source_prev = source
    /\ cleanCalls = 0
    /\ doctree = NoTree
    /\ doctree_in = NoTree
    /\ tagCalls = 0
    /\ _ARROWS = ShippedArrows

\* "source-read": _clean(app, docname, source)
_clean ==
    /\ phase = "read"
    /\ cleanCalls < MaxCalls
    /\ source' =
         IF ~clean_active(builder) THEN source
         ELSE substitute(_ARROWS, _CTRL_sub(source))
    /\ source_prev' = source
    /\ cleanCalls' = cleanCalls + 1
    /\ UNCHANGED <<builder, has_displaymath, phase, source_in, doctree,
                   doctree_in, tagCalls, _ARROWS>>

\* Sphinx hands the buffer to the parser once source-read has been emitted.
Parse ==
    /\ phase = "read"
    /\ cleanCalls >= 1
    /\ phase' = "parsed"
    /\ source' = <<>>
    /\ source_in' = <<>>
    /\ source_prev' = <<>>
    /\ cleanCalls' = 0
    /\ UNCHANGED <<builder, has_displaymath, doctree, doctree_in, tagCalls,
                   _ARROWS>>

\* The parser and the resolver build the tree; any tree may come out.
Resolve ==
    /\ phase = "parsed"
    /\ phase' = "resolved"
    /\ doctree' \in Trees(has_displaymath)
    /\ doctree_in' = doctree'
    /\ UNCHANGED <<builder, has_displaymath, source, source_in, source_prev,
                   cleanCalls, tagCalls, _ARROWS>>

\* "doctree-resolved": _nowrap_all_math(app, doctree, docname)
_nowrap_all_math ==
    /\ phase = "resolved"
    /\ tagCalls < MaxCalls
    /\ doctree' =
         IF ~nowrap_active(builder) THEN doctree
         ELSE set_nowrap(doctree, traverse(doctree, has_displaymath))
    /\ tagCalls' = tagCalls + 1
    /\ UNCHANGED <<builder, has_displaymath, phase, source, source_in,
                   source_prev, cleanCalls, doctree_in, _ARROWS>>

Next == _clean \/ Parse \/ Resolve \/ _nowrap_all_math

Spec == Init /\ [][Next]_vars

----------------------------------------------------------------------------
(* The substitution loop over an extended table                            *)

\* Entries _ARROWS may be extended with ("extend as needed"): a second
\* arrow, and escapes for the dollar sign and the backslash.
Entries ==
    {<< <<ARROW>>, ARROW_good >>,
     << <<RIGHTARROW>>, ARROW_good >>,
     << <<DOLLAR>>, <<BACKSLASH, DOLLAR>> >>,
     << <<BACKSLASH>>, <<BACKSLASH, BACKSLASH>> >>}

\* Ordered tables of at most MaxEntries entries with distinct keys that
\* hold the shipped entry.
Tables ==
    UNION {{t \in [1..n -> Entries] :
               /\ \A i, j \in 1..n : i # j => t[i][1] # t[j][1]
               /\ \E i \in 1..n : t[i] = ShippedArrows[1]} :
           n \in 1..MaxEntries}

ScanPieces == {<<c>> : c \in {ARROW, RIGHTARROW, DOLLAR, BACKSLASH, VT}}

ScanTexts == Concats(ScanPieces, MaxScan)

InitTable ==
    /\ builder = "latex"
    /\ has_displaymath = FALSE
    /\ phase = "read"
    /\ source \in ScanTexts
    /\ source_in = source
    /\ source_prev = source
    /\ cleanCalls = 0
    /\ doctree = NoTree
    /\ doctree_in = NoTree
    /\ tagCalls = 0
    /\ _ARROWS \in Tables

NextTable == _clean

SpecTable == InitTable /\ [][NextTable]_vars

----------------------------------------------------------------------------
(* Vocabulary of the properties                                            *)

Cleaned == phase = "read" /\ cleanCalls >= 1

Tagged == phase = "resolved" /\ tagCalls >= 1

Count(s, c) == Cardinality({i \in 1..Len(s) : s[i] = c})

Has(s, c) == \E i \in 1..Len(s) : s[i] = c

Keep(s, S) == SelectSeq(s, LAMBDA c : c \in S)

\* The control characters the sanitizer is to delete.
Disallowed == C0 \ Structural

RECURSIVE Occurrences(_, _)
\* The number of non-overlapping occurrences of pat in s, left to right.
Occurrences(s, pat) ==
    IF Len(s) < Len(pat) THEN 0
    ELSE IF SubSeq(s, 1, Len(pat)) = pat
         THEN 1 + Occurrences(SubSeq(s, Len(pat) + 1, Len(s)), pat)
         ELSE Occurrences(Tail(s), pat)

RECURSIVE Flatten(_)
Flatten(ss) == IF ss = <<>> THEN <<>> ELSE ss[1] \o Flatten(Tail(ss))

\* s with every glyph replaced, in place, by the mapped sequence.
GlyphsMapped(s) ==
    Flatten([i \in 1..Len(s) |-> IF s[i] = ARROW THEN ARROW_good ELSE <<s[i]>>])

\* T with each disallowed control character deleted and each glyph replaced
\* by the mapped sequence, every other character kept where it is.
Sanitized(T) ==
    Flatten([i \in 1..Len(T) |->
                IF T[i] \in Disallowed THEN <<>>
                ELSE IF T[i] = ARROW THEN ARROW_good
                ELSE <<T[i]>>])

Nodes(tree) == 1..Len(tree.kind)

DisplayMath(tree) ==
    {n \in Nodes(tree) : tree.kind[n] \in {"math_block", "displaymath"}}

NowrapSet(tree) == {n \in Nodes(tree) : nowrap_true(tree.attrs[n])}

----------------------------------------------------------------------------
(* Text sanitizer                                                          *)

\* C1: after _clean has run with builder "latex", the buffer holds no C0
\* character other than tab, line feed and carriage return.
C1_NoDisallowedControl ==
    (Cleaned /\ builder = "latex") =>
        \A i \in 1..Len(source) : source[i] \notin Disallowed

\* C1 witness: a buffer read with a VT and a tab in it has been cleaned and
\* still holds the tab.
C1_Witness ==
    /\ Cleaned /\ builder = "latex"
    /\ Has(source_in, VT) /\ Has(source_in, TAB)
    /\ Has(source, TAB)

\* C2: with builder "latex", the tab / line feed / carriage return
\* characters of the buffer read are the same, in number and order, after
\* _clean as before.
C2_StructuralSurvive ==
    (Cleaned /\ builder = "latex") =>
        Keep(source, Structural) = Keep(source_in, Structural)

\* C3: under a builder whose name is not exactly "latex", _clean leaves
\* source[0] as it was read.
C3_InactiveUnchanged ==
    (Cleaned /\ builder # "latex") => source = source_in

\* C3 witness: under builder "LaTeX" a buffer holding a control character
\* and the glyph has gone through _clean.
C3_Witness ==
    /\ Cleaned /\ builder = "LaTeX"
    /\ Has(source_in, VT) /\ Has(source_in, ARROW)
    /\ Has(source, VT) /\ Has(source, ARROW)

\* C4: a second run of the active _clean leaves the buffer the first run
\* produced unchanged.
C4_Idempotent ==
    (Cleaned /\ builder = "latex" /\ cleanCalls >= 2) => source = source_prev

\* C4 witness: two runs have happened on a buffer whose glyph the first run
\* rewrote.
C4_Witness ==
    /\ Cleaned /\ builder = "latex" /\ cleanCalls = 2
    /\ Has(source_in, ARROW)
    /\ source # source_in

\* C5 as stated: after the active _clean the glyph is gone, every glyph has
\* been replaced by the mapped sequence, and a buffer that held the glyph
\* once holds the mapped sequence exactly once.
C5_GlyphOnceExactlyOnce ==
    (Cleaned /\ builder = "latex") =>
        /\ ~Has(source, ARROW)
        /\ source = GlyphsMapped(_CTRL_sub(source_in))
        /\ Count(source_in, ARROW) = 1 => Occurrences(source, ARROW_good) = 1

\* C5 amended: after the active _clean the glyph is gone and every glyph has
\* been replaced, in place, by the mapped sequence; the buffer holds the
\* mapped sequence at least once per glyph read, and exactly once when the
\* buffer read held the glyph once and no dollar sign.
C5_GlyphReplaced ==
    (Cleaned /\ builder = "latex") =>
        /\ ~Has(source, ARROW)
        /\ source = GlyphsMapped(_CTRL_sub(source_in))
        /\ Occurrences(source, ARROW_good) >= Count(source_in, ARROW)
        /\ (Count(source_in, ARROW) = 1 /\ ~Has(source_in, DOLLAR))
              => Occurrences(source, ARROW_good) = 1

\* C5 witness: a buffer read with the glyph once and no dollar sign has been
\* cleaned and holds the mapped sequence once.
C5_Witness ==
    /\ Cleaned /\ builder = "latex"
    /\ Count(source_in, ARROW) = 1 /\ ~Has(source_in, DOLLAR)
    /\ Len(source_in) > 1
    /\ Occurrences(source, ARROW_good) = 1

\* C10: the active _clean yields exactly the buffer read with each
\* disallowed control character deleted and each glyph replaced by the
\* mapped sequence, nothing else touched.
C10_ExactOutput ==
    (Cleaned /\ builder = "latex") => source = Sanitized(source_in)

----------------------------------------------------------------------------
(* Math-node tagger                                                        *)

\* C6: after _nowrap_all_math has run with builder "latex", every
\* display-math node of the tree (math_block or displaymath) has nowrap set
\* to True, and when no node had nowrap set to True beforehand the nodes
\* with nowrap True are as many as the display-math nodes.
C6_AllDisplayMathTagged ==
    (Tagged /\ builder = "latex") =>
        /\ \A n \in DisplayMath(doctree) : nowrap_true(doctree.attrs[n])
        /\ NowrapSet(doctree_in) = {} =>
               Cardinality(NowrapSet(doctree)) =
                   Cardinality(DisplayMath(doctree_in))

\* C6 witness: a tree with a math_block and a displaymath node, neither
\* tagged when resolved, has been tagged.
C6_Witness ==
    /\ Tagged /\ builder = "latex"
    /\ NowrapSet(doctree_in) = {}
    /\ \E m, d \in Nodes(doctree) :
          /\ doctree.kind[m] = "math_block"
          /\ doctree.kind[d] = "displaymath"
          /\ nowrap_true(doctree.attrs[m])
          /\ nowrap_true(doctree.attrs[d])

\* C7: the active tagger changes nothing but the nowrap attribute of
\* display-math nodes: classes, parent/child structure and child order are
\* as before, every other node keeps exactly its attributes, a display-math
\* node keeps every attribute other than nowrap, and a tree without
\* display-math nodes is left as it was.
C7_OnlyNowrapOfDisplayMath ==
    (Tagged /\ builder = "latex") =>
        /\ doctree.kind = doctree_in.kind
        /\ doctree.children = doctree_in.children
        /\ \A n \in Nodes(doctree_in) \ DisplayMath(doctree_in) :
              doctree.attrs[n] = doctree_in.attrs[n]
        /\ \A n \in DisplayMath(doctree_in) :
              /\ DOMAIN doctree.attrs[n] =
                     (DOMAIN doctree_in.attrs[n]) \cup {"nowrap"}
              /\ \A k \in (DOMAIN doctree_in.attrs[n]) \ {"nowrap"} :
                     doctree.attrs[n][k] = doctree_in.attrs[n][k]
        /\ DisplayMath(doctree_in) = {} => doctree = doctree_in

\* C7 witness: a tree holding an inline math node next to a math_block has
\* been tagged, and the tagging changed it.
C7_Witness ==
    /\ Tagged /\ builder = "latex"
    /\ doctree # doctree_in
    /\ \E i, m \in Nodes(doctree) :
          /\ doctree.kind[i] = "math"
          /\ doctree.kind[m] = "math_block"

\* C8: under a builder whose name is not exactly "latex",
\* _nowrap_all_math leaves every node's attributes as they were.
C8_InactiveTreeUnchanged ==
    (Tagged /\ builder # "latex") => doctree = doctree_in

\* C8 witness: under builder "LaTeX" the handler has run on a tree with a
\* math_block that has no nowrap attribute, and it still has none.
C8_Witness ==
    /\ Tagged /\ builder = "LaTeX"
    /\ \E m \in Nodes(doctree) :
          /\ doctree.kind[m] = "math_block"
          /\ "nowrap" \notin DOMAIN doctree.attrs[m]

----------------------------------------------------------------------------
(* The substitution step against one left-to-right scan                    *)

Min(S) == CHOOSE x \in S : \A y \in S : x <= y

RECURSIVE Scan(_, _)
\* One left-to-right scan of s: at each position the first entry of tbl, in
\* table order, whose key starts there is replaced by its value and the
\* scan goes on after the key; text put in is never looked at again.
Scan(tbl, s) ==
    IF s = <<>> THEN <<>>
    ELSE LET hits == {i \in 1..Len(tbl) :
                         /\ Len(tbl[i][1]) <= Len(s)
                         /\ SubSeq(s, 1, Len(tbl[i][1])) = tbl[i][1]}
         IN  IF hits = {} THEN <<s[1]>> \o Scan(tbl, Tail(s))
             ELSE tbl[Min(hits)][2]
                      \o Scan(tbl, SubSeq(s, Len(tbl[Min(hits)][1]) + 1, Len(s)))

Chars(s) == {s[i] : i \in 1..Len(s)}

\* No later key shares a character with an earlier key or with an earlier
\* replacement value, and no earlier value is empty.
Independent(tbl) ==
    \A i, j \in 1..Len(tbl) :
        i < j => /\ tbl[i][2] # <<>>
                 /\ Chars(tbl[j][1]) \cap
                        (Chars(tbl[i][1]) \cup Chars(tbl[i][2])) = {}

\* C9 as stated: for any ordered table the substitution step of _clean
\* gives the result of one left-to-right scan of the control-stripped text.
C9_SubstitutionIsOneScan ==
    Cleaned => source = Scan(_ARROWS, _CTRL_sub(source_prev))

\* C9 amended: the substitution step gives the result of one left-to-right
\* scan of the control-stripped text when no later key of the table shares
\* a character with an earlier key or an earlier (non-empty) value, which
\* includes every single-entry table.
C9_IndependentTableIsOneScan ==
    (Cleaned /\ Independent(_ARROWS)) =>
        source = Scan(_ARROWS, _CTRL_sub(source_prev))

\* C9 witness: a two-entry independent table has been applied to a buffer
\* holding both keys, the first one twice.
C9_Witness ==
    /\ Cleaned /\ cleanCalls = 1
    /\ Len(_ARROWS) = 2 /\ Independent(_ARROWS)
    /\ Count(source_prev, _ARROWS[1][1][1]) = 2
    /\ Has(source_prev, _ARROWS[2][1][1])
    /\ source # source_prev

====
